---- MODULE Spec2Model ----
(***************************************************************************)
(* Model of the docs-crawler of lucylow/line-yield:                        *)
(*   - DocsSpider (CrawlSpider with one Rule/LinkExtractor, the            *)
(*     parse_documentation callback and its processed_urls set),           *)
(*   - CustomRetryMiddleware (process_response / process_exception),       *)
(*   - DocumentationPipeline (process_item and its clean_* validators).    *)
(* The crawl engine the spider runs in (scheduler with its duplicate       *)
(* filter, one request in flight, depth bookkeeping, non-2xx responses     *)
(* never reaching a callback) is modelled as the framework defines it for  *)
(* the settings the repository gives.                                      *)
(***************************************************************************)
EXTENDS Integers, Sequences, FiniteSets, TLC

\* ------------------------------------------------------------------ bounds
MaxItems == 2
MaxResponses == 2
MaxCalls == 2
NumPages == 6      \* documentation pages /docs/p1 .. /docs/pN (a chain of links)
MaxFrag == 2       \* fragment identifiers #f1 .. #fK used by links
MaxRuns == 2       \* runs of characters in a text handed to the pipeline
MaxRecords == 2    \* records the pipeline's collections hold in all

\* ------------------------------------------------------- program constants
max_depth == 5                \* docs_spider.py:43
RETRY_TIMES == 3              \* middlewares.py:40
CONCURRENT_REQUESTS == 1      \* settings.py:16
CONCURRENT_REQUESTS_PER_DOMAIN == 1   \* settings.py:17
MAX_PAGE_SIZE == 7 * 1024 * 1024      \* docs_spider.py:58
MIN_INLINE_LEN == 10                  \* docs_spider.py:241
MIN_COMPLETE_LEN == 100               \* docs_spider.py:360
MIN_CONTENT_LEN == 50         \* pipelines.py:40
MIN_CODE_LEN == 10            \* pipelines.py:59

retry_http_codes == {500, 502, 503, 504, 408, 429}
allowed_domains == {"docs.dappportal.io"}
allow == {"mini-dapp", "dapp-portal", "kaia-wave", "docs"}
deny == {"api", "admin", "login", "register"}
deny_ext == {"pdf", "zip", "exe", "dmg"}

\* ------------------------------------------------------------------- URLs
\* A URL  https://<host>/<sec>/[<mid>/]p<leaf>[.<ext>][/][#f<frag>] ; the start
\* URL https://docs.dappportal.io/ has no segments (sec = mid = "", leaf = 0).
Url(h, s, m, l, e, sl, f) ==
    [host |-> h, sec |-> s, mid |-> m, leaf |-> l, ext |-> e, slash |-> sl, frag |-> f]

start_url == Url("docs.dappportal.io", "", "", 0, "", TRUE, 0)
Doc(n) == Url("docs.dappportal.io", "docs", "", n, "", FALSE, 0)
DocSlash(n) == Url("docs.dappportal.io", "docs", "", n, "", TRUE, 0)
ApiDoc == Url("docs.dappportal.io", "docs", "api", 1, "", FALSE, 0)
PdfDoc == Url("docs.dappportal.io", "docs", "", 1, "pdf", FALSE, 0)
AdminPage == Url("docs.dappportal.io", "admin", "", 1, "", FALSE, 0)
AboutPage == Url("docs.dappportal.io", "about", "", 1, "", FALSE, 0)
OffsiteDoc == Url("other.example", "docs", "", 1, "", FALSE, 0)

\* The pages that also exist under the URL with a trailing slash.
SlashLeaves == {1}

WithFrag(u, f) == [u EXCEPT !.frag = f]

\* The pages of the site (URLs as a response carries them: no fragment).
Pages ==
    {start_url} \cup {Doc(n) : n \in 1..NumPages}
                \cup {DocSlash(n) : n \in SlashLeaves}
                \cup {ApiDoc, PdfDoc, AdminPage, AboutPage, OffsiteDoc}

\* The URL a response carries: the downloader requests the URL without its
\* fragment, and parse_documentation reads response.url.
ResponseUrl(u) == [u EXCEPT !.frag = 0]

\* The request fingerprint of the scheduler's duplicate filter: the URL without
\* its fragment; nothing else is removed (a trailing slash stays).
FingerprintKeepFragment(u) == u
Fingerprint(u) == [u EXCEPT !.frag = 0]

\* The normalisation the specification describes: fragment and trailing slash
\* both stripped.
SpecNormalize(u) == [u EXCEPT !.frag = 0, !.slash = FALSE]

\* re.search of '/<seg>/.*' in the URL: a path segment <seg> followed by '/'.
\* Every non-start URL of the model ends in a leaf segment, so sec and mid are
\* always followed by '/'.
HasSegment(u, seg) == u.leaf # 0 /\ (u.sec = seg \/ u.mid = seg)

\* re.search of '\.(pdf|zip|exe|dmg)$' in the URL: the extension ends the URL.
HasDeniedExt(u) == u.ext \in deny_ext /\ ~u.slash /\ u.frag = 0

MatchesAllow(u) == \E seg \in allow : HasSegment(u, seg)
MatchesDeny(u) == (\E seg \in deny : HasSegment(u, seg)) \/ HasDeniedExt(u)

\* LinkExtractor(allow=..., deny=...): a link is extracted when it matches an
\* allow pattern and no deny pattern.
LinkAllowedIgnoringDeny(u) == MatchesAllow(u)
LinkAllowed(u) == MatchesAllow(u) /\ ~MatchesDeny(u)

\* allowed_domains: requests to other hosts are filtered as offsite.
OnSite(u) == u.host \in allowed_domains

\* The anchors of each page, in document order.
FragLinks(u) == [f \in 1..MaxFrag |-> WithFrag(u, f)]
Links(u) ==
    IF u = start_url
    THEN FragLinks(Doc(1))
         \o (IF 1 \in SlashLeaves THEN <<DocSlash(1)>> ELSE <<>>)
         \o <<ApiDoc, PdfDoc, AdminPage, AboutPage, OffsiteDoc>>
    ELSE IF u.sec = "docs" /\ u.mid = "" /\ u.ext = ""
    THEN (IF u.leaf < NumPages THEN <<Doc(u.leaf + 1)>> \o FragLinks(Doc(u.leaf + 1)) ELSE <<>>)
         \o (IF u.leaf + 1 \in SlashLeaves THEN <<DocSlash(u.leaf + 1)>> ELSE <<>>)
         \o (IF u.leaf > 1 THEN <<Doc(u.leaf - 1)>> ELSE <<>>)
         \o <<start_url, ApiDoc>>
    ELSE <<>>

\* The same anchors in the opposite document order.
RECURSIVE Reverse(_)
Reverse(s) == IF s = <<>> THEN <<>> ELSE Reverse(Tail(s)) \o <<Head(s)>>

\* The bodies a page may be served with.
Bodies(u) == {Links(u), Reverse(Links(u))}

\* --------------------------------------------------------------- variables
VARIABLES
    queue,           \* scheduler: the requests waiting to be downloaded
    seen,            \* duplicate filter: fingerprints of the requests admitted
    inflight,        \* requests handed to the downloader
    processed_urls,  \* DocsSpider.processed_urls
    emitted,         \* per URL, the record sets parse_documentation yielded
    fetched,         \* per URL, the tasks (first attempts) sent to the downloader
    failed,          \* URLs whose task ended without a 2xx response
    last,            \* the last completed attempt and what was done with it
    closed,          \* the spider was closed (close_spider ran and wrote
                     \* the collections)
    skipped,         \* URLs of the "Page too large, skipping" warnings
    args,            \* run_crawler.py: the command line option given
    pc,              \* run_crawler.py main: the call it is in
    interrupted,     \* the call a KeyboardInterrupt arrived in ("" for none)
    items,           \* DocumentationPipeline.items
    code_examples,   \* DocumentationPipeline.code_examples
    links,           \* DocumentationPipeline.links
    rejected,        \* the number of records process_item did not accumulate
    last_item,       \* the class of the last record handed to process_item
    md_documentation_items,  \* MarkdownPipeline.documentation_items, by object
                     \* and whether its cleaning returned None
    documentation_items, \* DocumentationProcessor.documentation_items
    dp_code_examples,    \* DocumentationProcessor.code_examples
    dp_links,            \* DocumentationProcessor.links
    processed_data,      \* DocumentationProcessor.processed_data
    dp_loaded,           \* data_processor.main: load_data has run
    now,                 \* the clock datetime.now() reads
    calls,           \* the parse_documentation generators the engine holds
    response,        \* the page handed to the extraction methods
    code_blocks,     \* what extract_code_blocks returned for it
    headings,        \* what extract_headings returned for it
    is_complete      \* what is_content_complete returned for its item

crawlVars == <<queue, seen, inflight, processed_urls, emitted, fetched, failed,
               last, closed, skipped>>
mainVars == <<args, pc, interrupted>>
pipeVars == <<items, code_examples, links, rejected, last_item,
              md_documentation_items>>
processorVars == <<documentation_items, dp_code_examples, dp_links,
                   processed_data, dp_loaded, now>>
callVars == <<calls>>
extractVars == <<response, code_blocks, headings, is_complete>>
vars == <<crawlVars, mainVars, pipeVars, processorVars, callVars, extractVars>>
notCrawl == <<mainVars, pipeVars, processorVars, callVars, extractVars>>
notPipeline == <<crawlVars, mainVars, processorVars, callVars, extractVars>>
notProcessor == <<crawlVars, mainVars, pipeVars, callVars, extractVars>>
notCrawlNorMain == <<pipeVars, processorVars, callVars, extractVars>>
notMain == <<crawlVars, notCrawlNorMain>>
notExtract == <<crawlVars, mainVars, pipeVars, processorVars, callVars>>

Request(u, d, r, dr, df, cb) ==
    [url |-> u, depth |-> d, retry_times |-> r, dont_retry |-> dr,
     dont_filter |-> df, callback |-> cb]

NoItem == [cls |-> "", rejected |-> FALSE]
NoItemYet == [none |-> TRUE]
NoResponse == [none |-> TRUE, elements |-> <<>>, heading_elements |-> <<>>,
               item |-> NoItemYet]

NoAttempt == [url |-> start_url, status |-> 0, exc |-> "", depth |-> 0,
              size |-> 0, callback |-> "",
              retry_times |-> 0, dont_retry |-> FALSE,
              rescheduled |-> FALSE, delivered |-> FALSE, giveup |-> FALSE]

\* start_requests: the start URL is requested with dont_filter=True and its
\* response goes to parse_start_url, not to the rule's callback.
Args == {"", "--crawl-only", "--process-only"}

\* With --process-only no crawler process is started: there is no spider and
\* no scheduler.
InitWith(a) ==
    /\ args = a
    /\ pc = "setup_environment"
    /\ interrupted = ""
    /\ queue = IF a = "--process-only" THEN {}
               ELSE {Request(start_url, 0, 0, FALSE, TRUE, "parse_start_url")}
    /\ skipped = {}
    /\ seen = {}
    /\ inflight = {}
    /\ processed_urls = {}
    /\ emitted = [u \in Pages |-> 0]
    /\ fetched = [u \in Pages |-> 0]
    /\ failed = {}
    /\ last = NoAttempt
    /\ closed = FALSE
    /\ items = <<>>
    /\ code_examples = <<>>
    /\ links = <<>>
    /\ rejected = 0
    /\ last_item = NoItem
    /\ md_documentation_items = <<>>
    /\ documentation_items = <<>>
    /\ dp_code_examples = <<>>
    /\ dp_links = <<>>
    /\ processed_data = <<>>
    /\ dp_loaded = FALSE
    /\ now = 0
    /\ calls = <<>>
    /\ response = NoResponse
    /\ code_blocks = <<>>
    /\ headings = <<>>
    /\ is_complete = FALSE

Init == \E a \in Args : InitWith(a)

\* ---------------------------------------------------------------- scheduler
\* Scheduler.enqueue_request over the requests a callback produced, in order:
\* a request is dropped when it is filtered (not dont_filter) and its
\* fingerprint was seen; otherwise its fingerprint is recorded and it is queued.
RECURSIVE EnqueueAll(_, _, _)
EnqueueAll(reqs, seenSet, acc) ==
    IF reqs = <<>> THEN [seen |-> seenSet, queued |-> acc]
    ELSE LET r == Head(reqs) IN
         IF r.dont_filter THEN EnqueueAll(Tail(reqs), seenSet, acc \cup {r})
         ELSE IF Fingerprint(r.url) \in seenSet
              THEN EnqueueAll(Tail(reqs), seenSet, acc)
              ELSE EnqueueAll(Tail(reqs), seenSet \cup {Fingerprint(r.url)}, acc \cup {r})

\* CrawlSpider._requests_to_follow with the spider's one Rule: a request per
\* extracted link, one level deeper than the response, with the rule's callback.
ExtractLinks(body) == SelectSeq(body, LAMBDA l : LinkAllowed(l) /\ OnSite(l))
RequestsToFollow(body, depth, flagged) ==
    LET ls == ExtractLinks(body) IN
    [i \in 1..Len(ls) |->
        Request(ls[i], depth + 1, 0, ResponseUrl(ls[i]) \in flagged, FALSE,
                "parse_documentation")]

\* --------------------------------------------------------- retry middleware
\* RetryMiddleware._retry, which CustomRetryMiddleware inherits: a copy of the
\* request with retry_times + 1 and dont_filter set while that count is within
\* max_retry_times, and nothing once it is not.
RetryNoCap(r) == {[r EXCEPT !.retry_times = r.retry_times + 1, !.dont_filter = TRUE]}
RetryDropsCallback(r) ==
    IF r.retry_times + 1 <= RETRY_TIMES
    THEN {[r EXCEPT !.retry_times = r.retry_times + 1, !.dont_filter = TRUE,
                    !.callback = "parse_start_url"]}
    ELSE {}
RetryStartsOver(r) ==
    IF r.retry_times + 1 <= RETRY_TIMES
    THEN {[r EXCEPT !.retry_times = r.retry_times + 1, !.dont_filter = TRUE]}
    ELSE {[r EXCEPT !.retry_times = 1, !.dont_filter = TRUE]}
Retry(r) ==
    IF r.retry_times + 1 <= RETRY_TIMES
    THEN {[r EXCEPT !.retry_times = r.retry_times + 1, !.dont_filter = TRUE]}
    ELSE {}

\* CustomRetryMiddleware.process_response: the retry request to schedule, or
\* none when the response is returned.
ProcessResponseIgnoringFlag(r, status) ==
    IF status \in retry_http_codes THEN Retry(r) ELSE {}
ProcessResponseRetryAll(r, status) ==
    IF r.dont_retry THEN {}
    ELSE IF status \notin 200..299 THEN Retry(r) ELSE {}
process_response(r, status) ==
    IF r.dont_retry THEN {}
    ELSE IF status \in retry_http_codes THEN Retry(r)
    ELSE {}

\* CustomRetryMiddleware.process_exception: retried when the exception is one
\* of EXCEPTIONS_TO_RETRY and the request does not carry dont_retry.
EXCEPTIONS_TO_RETRY == {"TimeoutError", "ConnectionRefusedError"}
Exceptions == EXCEPTIONS_TO_RETRY \cup {"ValueError"}
process_exception(r, exc) ==
    IF exc \in EXCEPTIONS_TO_RETRY /\ ~r.dont_retry THEN Retry(r) ELSE {}

\* ------------------------------------------------------------------ spider
\* DocsSpider.parse_documentation is a generator. A generator g is at the
\* statement it runs next; sh is what its statements share with the other
\* generators and what they produce: processed_urls, the record sets yielded
\* and whether the "Page too large" warning was logged.
Generator(u, depth, size) ==
    [url |-> u, depth |-> depth, size |-> size, at |-> "test",
     admitted |-> FALSE, yielded |-> 0]

\* One statement of parse_documentation.
Statement(g, sh) ==
    CASE g.at = "test" ->     \* if response.url in self.processed_urls: return
            [g |-> [g EXCEPT !.at = IF g.url \in sh.processed THEN "done" ELSE "add"],
             sh |-> sh]
      [] g.at = "add" ->      \* self.processed_urls.add(response.url)
            [g |-> [g EXCEPT !.at = "depth", !.admitted = TRUE],
             sh |-> [sh EXCEPT !.processed = @ \cup {g.url}]]
      [] g.at = "depth" ->    \* if depth > self.max_depth: return
            [g |-> [g EXCEPT !.at = IF g.depth > max_depth THEN "done" ELSE "size"],
             sh |-> sh]
      [] g.at = "size" ->     \* if len(response.body) > 7 MB: warning; return
            IF g.size > MAX_PAGE_SIZE
            THEN [g |-> [g EXCEPT !.at = "done"], sh |-> [sh EXCEPT !.warned = TRUE]]
            ELSE [g |-> [g EXCEPT !.at = "item"], sh |-> sh]
      [] g.at = "item" ->     \* the item is built; yield item
            [g |-> [g EXCEPT !.at = "rest", !.yielded = @ + 1],
             sh |-> [sh EXCEPT !.items = @ + 1]]
      [] g.at = "rest" ->     \* the code examples and link items are yielded
            [g |-> [g EXCEPT !.at = "done"], sh |-> sh]
      [] OTHER -> [g |-> g, sh |-> sh]

\* The places where the engine can turn to another generator: a generator
\* that was not started, one suspended in a yield, and one that returned.
\* Callbacks run in the one thread of the reactor, so no other place is one.
CanSwitchAnywhere(at) == TRUE
CanSwitch(at) == at \in {"test", "rest", "done"}

\* next(g): the statements from where g is to its next yield or its return.
RECURSIVE RunToYield(_, _)
RunToYield(g, sh) ==
    LET n == Statement(g, sh) IN
    IF CanSwitch(n.g.at) THEN n ELSE RunToYield(n.g, n.sh)

\* The generator iterated to its end with no other generator in between.
RECURSIVE RunToEnd(_, _)
RunToEnd(g, sh) ==
    IF g.at = "done" THEN sh
    ELSE LET n == Statement(g, sh) IN RunToEnd(n.g, n.sh)

\* DocsSpider.parse_documentation(response), iterated to its end: the new
\* processed_urls, the number of record sets yielded (the DocumentationItem
\* with its code examples and link items), and whether the "Page too large"
\* warning was logged.
parse_documentation(u, depth, size, processed) ==
    RunToEnd(Generator(u, depth, size),
             [processed |-> processed, items |-> 0, warned |-> FALSE])

\* len(response.body) of the pages: two pages of the site are served at the
\* ceiling or one byte above it, the others below it.
MaybeBig == {Doc(4), Doc(max_depth + 1)}
Sizes(u) == IF u \in MaybeBig THEN {MAX_PAGE_SIZE, MAX_PAGE_SIZE + 1} ELSE {1024}

Statuses == {200, 404} \cup retry_http_codes

\* ----------------------------------------------------------------- actions
\* The downloader takes a request when fewer than CONCURRENT_REQUESTS are in
\* flight, and fewer than CONCURRENT_REQUESTS_PER_DOMAIN to the request's
\* domain. DelayMiddleware.process_request sleeps before it lets the
\* request through; it delays the download and changes nothing else.
SlotAlwaysFree(r, active) == TRUE
SlotFree(r, active) ==
    /\ Cardinality(active) < CONCURRENT_REQUESTS
    /\ Cardinality({q \in active : q.url.host = r.url.host})
          < CONCURRENT_REQUESTS_PER_DOMAIN

\* The engine takes the next request from the scheduler when a download slot
\* is free.
Download(r) ==
    /\ pc = "run_crawler"
    /\ ~closed
    /\ r \in queue
    /\ SlotFree(r, inflight)
    /\ queue' = queue \ {r}
    /\ inflight' = inflight \cup {r}
    /\ fetched' = IF r.retry_times = 0
                  THEN [fetched EXCEPT ![ResponseUrl(r.url)] = @ + 1]
                  ELSE fetched
    /\ UNCHANGED <<seen, processed_urls, emitted, failed, last, closed, skipped>>
    /\ UNCHANGED notCrawl

Attempt(r, status, exc, resched, deliv) ==
    [url |-> ResponseUrl(r.url), status |-> status, exc |-> exc, depth |-> r.depth,
     size |-> 0, callback |-> r.callback,
     retry_times |-> r.retry_times, dont_retry |-> r.dont_retry,
     rescheduled |-> resched, delivered |-> deliv,
     giveup |-> ~resched /\ ~deliv]

\* A response the retry middleware answers with a retry request: the request
\* goes back to the scheduler (dont_filter, so the duplicate filter passes it).
RetryResponse(r, status) ==
    /\ pc = "run_crawler"
    /\ r \in inflight
    /\ process_response(r, status) # {}
    /\ inflight' = inflight \ {r}
    /\ queue' = queue \cup process_response(r, status)
    /\ last' = Attempt(r, status, "", TRUE, FALSE)
    /\ UNCHANGED <<seen, processed_urls, emitted, fetched, failed, closed, skipped>>
    /\ UNCHANGED notCrawl

\* A 2xx response the middleware returns: the request's callback runs, then
\* the rule's links of the page are followed (follow=True) whatever the
\* callback yielded.
DeliverResponse(r, status) ==
    /\ pc = "run_crawler"
    /\ r \in inflight
    /\ process_response(r, status) = {}
    /\ status \in 200..299
    /\ LET u == ResponseUrl(r.url) IN
       \E body \in Bodies(u), size \in Sizes(u) :
          LET p == IF r.callback = "parse_documentation"
                   THEN parse_documentation(u, r.depth, size, processed_urls)
                   ELSE [processed |-> processed_urls, items |-> 0, warned |-> FALSE]
              ls == ExtractLinks(body)
              fresh == {ResponseUrl(ls[i]) : i \in 1..Len(ls)} \ seen
          IN \E flagged \in SUBSET fresh :
            LET e == EnqueueAll(RequestsToFollow(body, r.depth, flagged), seen, {}) IN
            /\ processed_urls' = p.processed
            /\ emitted' = [emitted EXCEPT ![u] = @ + p.items]
            /\ skipped' = IF p.warned THEN skipped \cup {u} ELSE skipped
            /\ seen' = e.seen
            /\ queue' = queue \cup e.queued
            /\ last' = [Attempt(r, status, "", FALSE, TRUE) EXCEPT !.size = size]
    /\ inflight' = inflight \ {r}
    /\ UNCHANGED <<fetched, failed, closed>>
    /\ UNCHANGED notCrawl

\* A non-2xx response the middleware returns (not retryable, flagged
\* dont_retry, or out of retries): no callback runs for it.
DropResponse(r, status) ==
    /\ pc = "run_crawler"
    /\ r \in inflight
    /\ process_response(r, status) = {}
    /\ status \notin 200..299
    /\ inflight' = inflight \ {r}
    /\ failed' = failed \cup {ResponseUrl(r.url)}
    /\ last' = Attempt(r, status, "", FALSE, FALSE)
    /\ UNCHANGED <<queue, seen, processed_urls, emitted, fetched, closed, skipped>>
    /\ UNCHANGED notCrawl

\* The download raised an exception and the middleware schedules a retry.
RetryException(r, exc) ==
    /\ pc = "run_crawler"
    /\ r \in inflight
    /\ process_exception(r, exc) # {}
    /\ inflight' = inflight \ {r}
    /\ queue' = queue \cup process_exception(r, exc)
    /\ last' = Attempt(r, 0, exc, TRUE, FALSE)
    /\ UNCHANGED <<seen, processed_urls, emitted, fetched, failed, closed, skipped>>
    /\ UNCHANGED notCrawl

\* The download raised an exception that is not retried: the request fails.
FailException(r, exc) ==
    /\ pc = "run_crawler"
    /\ r \in inflight
    /\ process_exception(r, exc) = {}
    /\ inflight' = inflight \ {r}
    /\ failed' = failed \cup {ResponseUrl(r.url)}
    /\ last' = Attempt(r, 0, exc, FALSE, FALSE)
    /\ UNCHANGED <<queue, seen, processed_urls, emitted, fetched, closed, skipped>>
    /\ UNCHANGED notCrawl

\* The spider goes idle (nothing queued, nothing in flight) and is closed.
CloseSpider ==
    /\ pc = "run_crawler"
    /\ ~closed
    /\ queue = {}
    /\ inflight = {}
    /\ closed' = TRUE
    /\ UNCHANGED <<queue, seen, inflight, processed_urls, emitted, fetched, failed, last, skipped>>
    /\ UNCHANGED notCrawl

\* ------------------------------------------------------ run_crawler.py main
\* setup_environment(), then "if args.setup_only / if not args.process_only":
\* the crawler is run unless --process-only was given. A failure of the setup
\* (CalledProcessError of pip) is caught by "except Exception": sys.exit(1).
SetupEnvironment(ok) ==
    /\ pc = "setup_environment"
    /\ pc' = IF ~ok THEN "sys.exit(1)"
             ELSE IF args = "--process-only" THEN "run_data_processor"
             ELSE "run_crawler"
    /\ UNCHANGED <<args, interrupted>>
    /\ UNCHANGED notMain

\* subprocess.run(..., check=True) returns when the crawler process has
\* exited, which it does with status 0 after the spider was closed.
CrawlerExitedAtOnce == TRUE
CrawlerExited == closed

\* run_crawler() returned True: "if args.crawl_only: return", else the data
\* processor is run.
RunCrawlerReturns ==
    /\ pc = "run_crawler"
    /\ CrawlerExited
    /\ pc' = IF args = "--crawl-only" THEN "return" ELSE "run_data_processor"
    /\ UNCHANGED <<args, interrupted>>
    /\ UNCHANGED notMain

\* The crawler process ended with a non-zero status before the spider was
\* closed: CalledProcessError, run_crawler() returns False and main returns
\* ("Crawling failed. Exiting.").
RunCrawlerFails ==
    /\ pc = "run_crawler"
    /\ ~closed
    /\ pc' = "return"
    /\ UNCHANGED <<args, interrupted>>
    /\ UNCHANGED notMain

\* run_data_processor(): True goes on to generate_summary, False returns.
RunDataProcessor(ok) ==
    /\ pc = "run_data_processor"
    /\ pc' = IF ok THEN "generate_summary" ELSE "return"
    /\ UNCHANGED <<args, interrupted>>
    /\ UNCHANGED notMain

\* generate_summary() writes output/CRAWL_SUMMARY.md; an OSError of the write
\* is caught by "except Exception": sys.exit(1).
GenerateSummary(ok) ==
    /\ pc = "generate_summary"
    /\ pc' = IF ok THEN "return" ELSE "sys.exit(1)"
    /\ UNCHANGED <<args, interrupted>>
    /\ UNCHANGED notMain

\* "except KeyboardInterrupt: ... sys.exit(1)", from whichever call main is in.
KeyboardInterruptContinues(at) ==
    IF at = "run_crawler" THEN "run_data_processor" ELSE "sys.exit(1)"
KeyboardInterruptHandler(at) == "sys.exit(1)"

\* A KeyboardInterrupt arrives. During run_crawler, subprocess.run gives
\* the crawler process a moment to end by itself and kills it otherwise:
\* the spider is either closed in that moment (when nothing is in flight) or
\* stopped as it stands, its collections unwritten.
KeyboardInterrupt(graceful) ==
    /\ pc \in {"setup_environment", "run_crawler", "run_data_processor",
               "generate_summary"}
    /\ interrupted' = pc
    /\ pc' = KeyboardInterruptHandler(pc)
    /\ closed' = IF pc = "run_crawler" /\ graceful /\ inflight = {}
                 THEN TRUE ELSE closed
    /\ UNCHANGED <<queue, seen, inflight, processed_urls, emitted, fetched,
                   failed, last, skipped, args>>
    /\ UNCHANGED notCrawlNorMain

Next ==
    \/ \E r \in queue : Download(r)
    \/ \E r \in inflight, s \in Statuses : RetryResponse(r, s)
    \/ \E r \in inflight, s \in Statuses : DeliverResponse(r, s)
    \/ \E r \in inflight, s \in Statuses : DropResponse(r, s)
    \/ \E r \in inflight, x \in Exceptions : RetryException(r, x)
    \/ \E r \in inflight, x \in Exceptions : FailException(r, x)
    \/ CloseSpider
    \/ \E ok \in BOOLEAN : SetupEnvironment(ok)
    \/ RunCrawlerReturns
    \/ RunCrawlerFails
    \/ \E ok \in BOOLEAN : RunDataProcessor(ok)
    \/ \E ok \in BOOLEAN : GenerateSummary(ok)
    \/ \E graceful \in BOOLEAN : KeyboardInterrupt(graceful)

Spec == Init /\ [][Next]_vars

\* A crawl that nothing interrupts: "python run_crawler.py" with no option,
\* whose environment is set up, up to the closing of the spider. The reactor
\* runs what is ready: a request in the scheduler is taken when a slot is
\* free, a download ends with a response or with an exception
\* (DOWNLOAD_TIMEOUT ends one that has no answer), and the idle spider is
\* closed.
Completes ==
    \/ \E r \in inflight, x \in Exceptions : FailException(r, x)
    \/ \E r \in inflight, x \in Exceptions : RetryException(r, x)
    \/ \E r \in inflight, s \in Statuses : DropResponse(r, s)
    \/ \E r \in inflight, s \in Statuses : RetryResponse(r, s)
    \/ \E r \in inflight, s \in Statuses : DeliverResponse(r, s)

CrawlNext ==
    \/ SetupEnvironment(TRUE)
    \/ \E r \in queue : Download(r)
    \/ Completes
    \/ CloseSpider

FairSpec ==
    /\ InitWith("")
    /\ [][CrawlNext]_vars
    /\ WF_vars(SetupEnvironment(TRUE))
    /\ WF_vars(\E r \in queue : Download(r))
    /\ WF_vars(Completes)
    /\ WF_vars(CloseSpider)

\* ------------------------------------------------- callbacks in the engine
\* The engine calls the rule's callback with a response: a generator is made,
\* none of its statements has run.
Call(u, depth, size) ==
    /\ Len(calls) < MaxResponses
    /\ calls' = Append(calls, Generator(u, depth, size))
    /\ UNCHANGED <<queue, seen, inflight, processed_urls, emitted, fetched, failed,
                   last, closed, skipped>>
    /\ UNCHANGED <<mainVars, pipeVars, processorVars, extractVars>>

\* The engine takes the next output of one of the generators it holds.
Resume(i) ==
    /\ i \in DOMAIN calls
    /\ calls[i].at # "done"
    /\ LET n == RunToYield(calls[i], [processed |-> processed_urls, items |-> 0,
                                      warned |-> FALSE])
       IN /\ calls' = [calls EXCEPT ![i] = n.g]
          /\ processed_urls' = n.sh.processed
          /\ emitted' = [emitted EXCEPT ![calls[i].url] = @ + n.sh.items]
          /\ skipped' = IF n.sh.warned THEN skipped \cup {calls[i].url} ELSE skipped
    /\ UNCHANGED <<queue, seen, inflight, fetched, failed, last, closed>>
    /\ UNCHANGED <<mainVars, pipeVars, processorVars, extractVars>>

CallbackNext ==
    \/ \E u \in {Doc(1), Doc(2)}, depth \in {1, max_depth + 1},
          size \in {MAX_PAGE_SIZE, MAX_PAGE_SIZE + 1} : Call(u, depth, size)
    \/ \E i \in 1..MaxResponses : Resume(i)

CallbackSpec == InitWith("") /\ [][CallbackNext]_vars

\* ---------------------------------------------------------------- pipeline
\* A text is a sequence of runs [k, n]: n characters of kind "w" (not
\* whitespace) or "s" (whitespace, the non-breaking space included, which
\* str.split() treats as whitespace). Adjacent runs differ in kind.
RunLens == {1, 9, 49}
Run(k, n) == [k |-> k, n |-> n]
Runs == {Run(k, n) : k \in {"w", "s"}, n \in RunLens}
Alternates(t) == \A i \in 1..(Len(t) - 1) : t[i].k # t[i + 1].k
Texts == UNION {{t \in [1..m -> Runs] : Alternates(t)} : m \in 0..MaxRuns}
ShortTexts == {t \in Texts : \A i \in 1..Len(t) : t[i].n = 1}

\* len(text)
RECURSIVE TextLen(_)
TextLen(t) == IF t = <<>> THEN 0 ELSE Head(t).n + TextLen(Tail(t))

\* ' '.join(words)
RECURSIVE Join(_)
Join(words) ==
    IF Len(words) <= 1 THEN words
    ELSE <<Head(words), Run("s", 1)>> \o Join(Tail(words))

\* DocumentationPipeline.clean_text: '' for an empty text; otherwise the words
\* of text.split() joined by single spaces. The replacements that follow put
\* one character for one (and find no non-breaking space left), and the final
\* strip() finds nothing to strip.
clean_text(t) ==
    IF t = <<>> THEN <<>>
    ELSE Join(SelectSeq(t, LAMBDA r : r.k = "w"))

NoneItem == [none |-> TRUE]

\* DocumentationPipeline.clean_documentation_item: None, or the item with its
\* content and title cleaned (a missing field reads as the empty text).
clean_documentation_item(item) ==
    IF item.content = <<>> \/ TextLen(item.content) < MIN_CONTENT_LEN THEN NoneItem
    ELSE IF item.title = <<>> THEN NoneItem
    ELSE [none |-> FALSE, title |-> clean_text(item.title),
          content |-> clean_text(item.content)]

\* DocumentationPipeline.clean_code_example
clean_code_example(item) ==
    IF item.code = <<>> \/ TextLen(item.code) < MIN_CODE_LEN THEN NoneItem
    ELSE [none |-> FALSE, code |-> clean_text(item.code)]

\* DocumentationPipeline.clean_link_item: the url is kept as it is.
clean_link_item(item) ==
    IF item.url = <<>> \/ item.text = <<>> THEN NoneItem
    ELSE [none |-> FALSE, url |-> item.url, text |-> clean_text(item.text)]

Stored == Len(items) + Len(code_examples) + Len(links)

\* "if cleaned_item: self.items.append(dict(cleaned_item))" and its two
\* siblings: the collection grows by the cleaned record, or stays as it is
\* when the cleaning returned None. process_item then returns the item; it
\* raises nothing.
AccumulateAlways(collection, cleaned, record) == Append(collection, record)
Accumulate(collection, cleaned, record) ==
    IF cleaned.none THEN collection ELSE Append(collection, record)

Handled(cls, cleaned) ==
    /\ rejected' = IF cleaned.none THEN rejected + 1 ELSE rejected
    /\ last_item' = [cls |-> cls, rejected |-> cleaned.none]

\* The object an item is: the items are told apart by their arrival number.
ItemId == Stored + rejected + 1

\* MarkdownPipeline.process_item: every DocumentationItem is appended, the
\* object DocumentationPipeline.process_item returned, which is the one it was
\* given.
MarkdownProcessItem(cls, id) ==
    IF cls = "DocumentationItem" THEN Append(md_documentation_items, id)
    ELSE md_documentation_items

\* An item through the chain of ITEM_PIPELINES: DocumentationPipeline (300),
\* then MarkdownPipeline (400). clean_documentation_item assigns the cleaned
\* content and title to the item it was given and returns it: the other
\* fields stay as the spider set them.
ProcessDocumentationItem(item) ==
    /\ Stored + rejected < MaxRecords
    /\ LET cleaned_item == clean_documentation_item(item) IN
       /\ items' = Accumulate(items, cleaned_item,
                               IF cleaned_item.none THEN cleaned_item
                               ELSE [item EXCEPT !.title = cleaned_item.title,
                                                 !.content = cleaned_item.content]
                                    @@ [id |-> ItemId])
       /\ Handled("DocumentationItem", cleaned_item)
    /\ md_documentation_items' = MarkdownProcessItem("DocumentationItem", ItemId)
    /\ UNCHANGED <<code_examples, links>>
    /\ UNCHANGED notPipeline

ProcessCodeExampleItem(item) ==
    /\ Stored + rejected < MaxRecords
    /\ LET cleaned_code == clean_code_example(item) IN
       /\ code_examples' = Accumulate(code_examples, cleaned_code,
                                       IF cleaned_code.none THEN cleaned_code
                                       ELSE [code |-> cleaned_code.code])
       /\ Handled("CodeExampleItem", cleaned_code)
    /\ md_documentation_items' = MarkdownProcessItem("CodeExampleItem", ItemId)
    /\ UNCHANGED <<items, links>>
    /\ UNCHANGED notPipeline

ProcessLinkItem(item) ==
    /\ Stored + rejected < MaxRecords
    /\ LET cleaned_link == clean_link_item(item) IN
       /\ links' = Accumulate(links, cleaned_link,
                               IF cleaned_link.none THEN cleaned_link
                               ELSE [url |-> cleaned_link.url,
                                     text |-> cleaned_link.text])
       /\ Handled("LinkItem", cleaned_link)
    /\ md_documentation_items' = MarkdownProcessItem("LinkItem", ItemId)
    /\ UNCHANGED <<items, code_examples>>
    /\ UNCHANGED notPipeline

\* extract_content joins the stripped, non-empty text nodes of the paragraphs
\* with single spaces: its result neither starts nor ends with whitespace, and
\* the whitespace inside a text node (a line break with its indentation)
\* stays as it is.
Contents ==
    {<<>>, <<Run("w", 49)>>,
     <<Run("w", 49), Run("s", 1), Run("w", 9)>>,
     <<Run("w", 49), Run("s", 9), Run("w", 49)>>,
     <<Run("w", 9), Run("s", 49), Run("w", 9)>>}
CodeBlockLists ==
    {<<>>, <<[language |-> "text", code |-> <<Run("w", 49)>>, type |-> "pre_code"]>>}

\* parse_documentation: the item as the spider yields it, content_length and
\* has_code computed from the extracted content and code blocks.
DocumentationItem(title, content, blocks) ==
    [title |-> title, content |-> content, code_blocks |-> blocks,
     content_length |-> TextLen(content), has_code |-> Len(blocks) > 0]

DocumentationItems ==
    {DocumentationItem(title, content, blocks) :
        title \in ShortTexts, content \in Contents,
        blocks \in CodeBlockLists}
CodeExampleItems == [code : Texts]
LinkItems == [url : {<<>>, <<Run("w", 9)>>}, text : Texts]

PipelineNext ==
    \/ \E item \in DocumentationItems : ProcessDocumentationItem(item)
    \/ \E item \in CodeExampleItems : ProcessCodeExampleItem(item)
    \/ \E item \in LinkItems : ProcessLinkItem(item)

PipelineSpec == InitWith("") /\ [][PipelineNext]_vars

\* -------------------------------------------------------------- extraction
\* The code elements of a page, in document order. Each has the text of its
\* own text nodes (css('::text'): the text inside nested elements is not
\* part of it), its class attribute as a sequence of parts, and is or is not
\* inside a pre element.
CodeTexts ==
    {<<>>,
     <<Run("s", 1)>>,
     <<Run("w", 5)>>,
     <<Run("w", 10)>>,
     <<Run("w", 9), Run("s", 1), Run("w", 1)>>,
     <<Run("s", 1), Run("w", 10), Run("s", 1)>>,
     <<Run("w", 49), Run("s", 1), Run("w", 10)>>}
Classes == {<<>>, <<"language-", "typescript">>, <<"lang-", "js">>}
CodeElements == [pre : BOOLEAN, class : Classes, text : CodeTexts]
ResponsePages == UNION {[1..m -> CodeElements] : m \in 0..MaxItems}

\* str.strip()
Strip(t) ==
    LET a == IF t # <<>> /\ Head(t).k = "s" THEN Tail(t) ELSE t
    IN IF a # <<>> /\ a[Len(a)].k = "s" THEN SubSeq(a, 1, Len(a) - 1) ELSE a

\* language.replace('language-', '').replace('lang-', '') of a class
\* attribute, and 'text' for an element without one.
Language(class) ==
    IF class # <<>>
    THEN SelectSeq(class, LAMBDA part : part \notin {"language-", "lang-"})
    ELSE <<"text">>

\* "if code_content and len(code_content) > 10"
InlineKeptFromMinimum(code_content) ==
    code_content # <<>> /\ TextLen(code_content) >= MIN_INLINE_LEN
InlineKept(code_content) ==
    code_content # <<>> /\ TextLen(code_content) > MIN_INLINE_LEN

\* "for code_block in response.css('pre code')"
RECURSIVE PreCodeBlocks(_)
PreCodeBlocks(elements) ==
    IF elements = <<>> THEN <<>>
    ELSE LET code_block == Head(elements)
             code_content == Strip(code_block.text)
         IN (IF code_block.pre /\ code_content # <<>>
             THEN <<[language |-> Language(code_block.class),
                     code |-> code_content, type |-> "pre_code"]>>
             ELSE <<>>)
            \o PreCodeBlocks(Tail(elements))

\* "for code_block in response.css('code')": every code element of the page,
\* those inside a pre element included.
RECURSIVE InlineBlocks(_)
InlineBlocks(elements) ==
    IF elements = <<>> THEN <<>>
    ELSE LET code_content == Strip(Head(elements).text)
         IN (IF InlineKept(code_content)
             THEN <<[language |-> <<"text">>, code |-> code_content,
                     type |-> "inline"]>>
             ELSE <<>>)
            \o InlineBlocks(Tail(elements))

\* DocsSpider.extract_code_blocks
extract_code_blocks(page) == PreCodeBlocks(page) \o InlineBlocks(page)

\* parse_documentation: item['code_blocks'] = self.extract_code_blocks(response)
ExtractCodeBlocks(page) ==
    /\ response = NoResponse
    /\ response' = [NoResponse EXCEPT !.none = FALSE, !.elements = page]
    /\ code_blocks' = extract_code_blocks(page)
    /\ UNCHANGED <<headings, is_complete>>
    /\ UNCHANGED notExtract

\* The heading elements of a page, in document order: the level of each and
\* the text nodes of its own (none when all its text is inside a nested
\* element, such as an anchor).
HeadingLevels == 1..6
HeadingTexts == {<<Run("w", 5)>>, <<Run("s", 1), Run("w", 5), Run("s", 1)>>,
                 <<Run("w", 9)>>}
HeadingElements ==
    [level : HeadingLevels, nodes : {<<>>} \cup {<<t>> : t \in HeadingTexts}]
HeadingPages == UNION {[1..m -> HeadingElements] : m \in 0..MaxItems}

\* One entry per text node of the elements, in the order of the elements.
RECURSIVE EntriesInOrder(_)
EntriesInOrder(elements) ==
    IF elements = <<>> THEN <<>>
    ELSE LET h == Head(elements) IN
         [n \in DOMAIN h.nodes |->
             [level |-> h.level, text |-> Strip(h.nodes[n]), tag |-> <<"h", h.level>>]]
         \o EntriesInOrder(Tail(elements))

\* response.css('h{i}::text').getall() with its loop body: the text nodes of
\* the elements of level i, in document order.
HeadingsOfLevel(elements, i) ==
    EntriesInOrder(SelectSeq(elements, LAMBDA h : h.level = i))

\* DocsSpider.extract_headings: "for i in range(1, 7)", level after level.
RECURSIVE HeadingsFromLevel(_, _)
HeadingsFromLevel(elements, i) ==
    IF i > 6 THEN <<>>
    ELSE HeadingsOfLevel(elements, i) \o HeadingsFromLevel(elements, i + 1)
extract_headings(elements) == HeadingsFromLevel(elements, 1)

\* parse_documentation: item['headings'] = self.extract_headings(response)
ExtractHeadings(page) ==
    /\ response = NoResponse
    /\ response' = [NoResponse EXCEPT !.none = FALSE, !.heading_elements = page]
    /\ headings' = extract_headings(page)
    /\ UNCHANGED <<code_blocks, is_complete>>
    /\ UNCHANGED notExtract

\* The item is_content_complete is given: content and title as extracted, the
\* page type determine_page_type gave, and the tags.
CompleteItems ==
    [content : {<<>>,
                <<Run("w", 49), Run("s", 1), Run("w", 9)>>,
                <<Run("w", 49), Run("s", 1), Run("w", 49)>>,
                <<Run("w", 49), Run("s", 1), Run("w", 49), Run("s", 1)>>},
     title : {<<>>, <<Run("w", 5)>>},
     page_type : {"mini_dapp", "dapp_portal", "kaia_wave", "general"},
     tags : SUBSET {"sdk", "wallet", "tutorial"}]

\* The tags a page type asks for; none for the other types.
RequiredTagsSwapped(page_type) ==
    IF page_type = "mini_dapp" THEN {"wallet", "payment", "portal"}
    ELSE IF page_type = "dapp_portal" THEN {"sdk", "integration", "development"}
    ELSE {}
RequiredTags(page_type) ==
    IF page_type = "mini_dapp" THEN {"sdk", "integration", "development"}
    ELSE IF page_type = "dapp_portal" THEN {"wallet", "payment", "portal"}
    ELSE {}

\* DocsSpider.is_content_complete
is_content_complete(item) ==
    IF item.content = <<>> \/ TextLen(item.content) < MIN_COMPLETE_LEN THEN FALSE
    ELSE IF item.title = <<>> THEN FALSE
    ELSE IF item.page_type = "mini_dapp"
    THEN \E tag \in RequiredTags("mini_dapp") : tag \in item.tags
    ELSE IF item.page_type = "dapp_portal"
    THEN \E tag \in RequiredTags("dapp_portal") : tag \in item.tags
    ELSE TRUE

\* parse_documentation: item['is_complete'] = self.is_content_complete(item)
IsContentComplete(item) ==
    /\ response = NoResponse
    /\ response' = [NoResponse EXCEPT !.none = FALSE,
                                      !.item = [none |-> FALSE, fields |-> item]]
    /\ is_complete' = is_content_complete(item)
    /\ UNCHANGED <<code_blocks, headings>>
    /\ UNCHANGED notExtract

ExtractNext ==
    /\ response.none
    /\ \/ \E page \in ResponsePages : ExtractCodeBlocks(page)
       \/ \E page \in HeadingPages : ExtractHeadings(page)
       \/ \E item \in CompleteItems : IsContentComplete(item)

ExtractSpec == InitWith("") /\ [][ExtractNext]_vars

\* ---------------------------------------------------------- data processor
\* The records documentation_items.json, code_examples.json and links.json
\* may hold. A record is a dict: a key may be missing, and the processor
\* reads every key with a default. The pipeline stores one DocumentationItem
\* per page, so the records of a file differ in their url.
DocPool ==
    {[url |-> 1, section |-> "Mini Dapp Development", language |-> "en",
      page_type |-> "mini_dapp", tags |-> <<"sdk", "wallet">>,
      content |-> <<Run("w", 49), Run("s", 1), Run("w", 9)>>],
     [url |-> 2, section |-> "Mini Dapp Development", language |-> "ja",
      page_type |-> "general", tags |-> <<"sdk">>,
      content |-> <<Run("w", 49), Run("s", 1), Run("w", 1)>>],
     [url |-> 3, section |-> "General Documentation", language |-> "en",
      page_type |-> "general", tags |-> <<>>,
      content |-> <<Run("w", 49), Run("s", 1), Run("w", 49)>>],
     [url |-> 4, language |-> "en"]}
CodePool ==
    {[id |-> 1, language |-> "typescript"],
     [id |-> 2, language |-> "text"],
     [id |-> 3]}
LinkPool == {[url |-> 1]}

Range(f) == {f[i] : i \in DOMAIN f}
InjectiveSeqs(S, n) ==
    {q \in UNION {[1..m -> S] : m \in 0..n} :
        \A i, j \in DOMAIN q : i # j => q[i] # q[j]}

\* dict.get(key, default)
Get(item, key, default) == IF key \in DOMAIN item THEN item[key] ELSE default

\* defaultdict(list)[key].append(item)
AppendToTwice(groups, key, item) ==
    IF key \in DOMAIN groups
    THEN [groups EXCEPT ![key] = @ \o <<item, item>>]
    ELSE groups @@ (key :> <<item, item>>)
AppendTo(groups, key, item) ==
    IF key \in DOMAIN groups
    THEN [groups EXCEPT ![key] = Append(@, item)]
    ELSE groups @@ (key :> <<item>>)

\* "for tag in tags: self.processed_data['topics'][tag].append(item)"
RECURSIVE TopicsOf(_, _, _)
TopicsOf(topics, tags, item) ==
    IF tags = <<>> THEN topics
    ELSE TopicsOf(AppendTo(topics, Head(tags), item), Tail(tags), item)

\* "for item in self.documentation_items": the four groupings of one item,
\* then the rest of the list.
RECURSIVE Organize(_, _)
Organize(data, docs) ==
    IF docs = <<>> THEN data
    ELSE LET item == Head(docs) IN
         Organize(
            [data EXCEPT
                !.sections = AppendTo(@, Get(item, "section", "General Documentation"), item),
                !.languages = AppendTo(@, Get(item, "language", "en"), item),
                !.page_types = AppendTo(@, Get(item, "page_type", "general"), item),
                !.topics = TopicsOf(@, Get(item, "tags", <<>>), item)],
            Tail(docs))

\* "for code_item in self.code_examples"
RECURSIVE OrganizeCode(_, _)
OrganizeCode(data, codes) ==
    IF codes = <<>> THEN data
    ELSE OrganizeCode(
            [data EXCEPT !.code_by_language =
                AppendTo(@, Get(Head(codes), "language", "text"), Head(codes))],
            Tail(codes))

\* sum(len(item.get('content', '')) for item in self.documentation_items)
RECURSIVE SumContent(_)
SumContent(docs) ==
    IF docs = <<>> THEN 0
    ELSE TextLen(Get(Head(docs), "content", <<>>)) + SumContent(Tail(docs))

\* "total / len(items) if items else 0": the quotient is kept as the fraction
\* num/den, and the integer 0 of the empty case as 0/1.
Zero == [num |-> 0, den |-> 1]
AverageUnguarded(total, docs) == [num |-> total, den |-> Len(docs)]
Average(total, docs) ==
    IF docs # <<>> THEN [num |-> total, den |-> Len(docs)] ELSE Zero

\* DocumentationProcessor.calculate_statistics
calculate_statistics(data, docs, codes, lnks, date) ==
    LET total_content_length == SumContent(docs)
        code_languages == {Get(codes[i], "language", "text") : i \in DOMAIN codes}
    IN [total_documentation_items |-> Len(docs),
        total_code_examples |-> Len(codes),
        total_links |-> Len(lnks),
        sections_count |-> Cardinality(DOMAIN data.sections),
        languages_count |-> Cardinality(DOMAIN data.languages),
        page_types_count |-> Cardinality(DOMAIN data.page_types),
        topics_count |-> Cardinality(DOMAIN data.topics),
        processing_date |-> date,
        total_content_length |-> total_content_length,
        average_content_length |-> Average(total_content_length, docs),
        code_languages |-> code_languages,
        code_languages_count |-> Cardinality(code_languages)]

\* The dict process_documentation starts from: five empty defaultdicts and
\* empty statistics.
EmptyData ==
    [sections |-> <<>>, languages |-> <<>>, page_types |-> <<>>,
     topics |-> <<>>, code_by_language |-> <<>>, statistics |-> <<>>]

\* DocumentationProcessor.process_documentation: processed_data is replaced
\* by a new dict, filled from the loaded collections, and the statistics are
\* calculated last. previous is the dict the processor held before the call.
ProcessDocumentationKeepingPrevious(previous, docs, codes, lnks, date) ==
    LET start == IF previous = <<>> THEN EmptyData ELSE previous
        data == OrganizeCode(Organize(start, docs), codes)
    IN [data EXCEPT !.statistics = calculate_statistics(data, docs, codes, lnks, date)]
process_documentation(previous, docs, codes, lnks, date) ==
    LET data == OrganizeCode(Organize(EmptyData, docs), codes)
    IN [data EXCEPT !.statistics = calculate_statistics(data, docs, codes, lnks, date)]

\* data_processor.main: processor.load_data() reads the three files (a
\* missing file leaves the empty list of the constructor).
LoadData(docs, codes, lnks) ==
    /\ ~dp_loaded
    /\ dp_loaded' = TRUE
    /\ documentation_items' = docs
    /\ dp_code_examples' = codes
    /\ dp_links' = lnks
    /\ UNCHANGED <<processed_data, now>>
    /\ UNCHANGED notProcessor

\* processor.process_documentation(), any number of times on the processor.
ProcessDocumentation ==
    /\ dp_loaded
    /\ now < MaxCalls
    /\ now' = now + 1
    /\ processed_data' = process_documentation(processed_data, documentation_items,
                                               dp_code_examples, dp_links, now')
    /\ UNCHANGED <<documentation_items, dp_code_examples, dp_links, dp_loaded>>
    /\ UNCHANGED notProcessor

ProcessorNext ==
    \/ \E docs \in InjectiveSeqs(DocPool, MaxItems),
          codes \in InjectiveSeqs(CodePool, MaxItems),
          lnks \in InjectiveSeqs(LinkPool, MaxItems) : LoadData(docs, codes, lnks)
    \/ ProcessDocumentation

ProcessorSpec == InitWith("") /\ [][ProcessorNext]_vars

\* ------------------------------------------------------------------ claims
Pending == queue \cup inflight

\* The tasks ever admitted to the frontier for the URL u: those already sent to
\* the downloader and those still waiting for their first attempt.
Tasks(u) ==
    fetched[u] + Cardinality({r \in queue : ResponseUrl(r.url) = u /\ r.retry_times = 0})

C2_FragmentAndSlashCollapse ==
    \A u \in Pages :
        LET same == {v \in Pages : SpecNormalize(v) = SpecNormalize(u)} IN
        /\ Cardinality({e \in seen : SpecNormalize(e) \in same}) <= 1
        /\ \A v \in same : v # u => fetched[u] + fetched[v] <= 1
        /\ \A v \in same : v # u => emitted[u] + emitted[v] <= 1

\* C2 as amended: URLs that differ only by fragment are one visited-set entry
\* (no entry carries a fragment, and one task is admitted per entry); a
\* trailing slash is kept, so /docs/p1 and /docs/p1/ are two entries, both
\* admitted by the page that links to both.
C2_FragmentsCollapseSlashKept ==
    /\ \A e \in seen : e.frag = 0 /\ Tasks(e) = 1
    /\ \A u \in Pages : Tasks(u) <= 1
    /\ seen # {} => {Doc(1), DocSlash(1)} \subseteq seen

\* The start page linked /docs/p1#f1, /docs/p1#f2 and /docs/p1/ : /docs/p1 was
\* fetched and parsed once, and so was /docs/p1/.
C2_Witness ==
    /\ fetched[Doc(1)] = 1 /\ emitted[Doc(1)] = 1
    /\ fetched[DocSlash(1)] = 1 /\ emitted[DocSlash(1)] = 1

\* C3: every admitted task has depth <= max_depth, none deeper is ever sent to
\* the downloader, and no record is emitted for a deeper response.
C3_DepthBounded ==
    /\ \A r \in Pending : r.depth <= max_depth
    /\ last.depth <= max_depth
    /\ \A n \in 1..NumPages : n > max_depth => emitted[Doc(n)] = 0

\* C4: a URL that matches an allow pattern and a deny pattern is never
\* admitted to the frontier and never fetched.
C4_DenyPrecedence ==
    \A u \in Pages :
        MatchesAllow(u) /\ MatchesDeny(u) =>
            /\ fetched[u] = 0
            /\ u \notin seen
            /\ \A r \in Pending : ResponseUrl(r.url) # u

\* The start page and /docs/p1 both link to /docs/api/p1 (allow /docs/, deny
\* /api/) and the start page to /docs/p1.pdf; both pages were parsed.
C4_Witness ==
    /\ MatchesAllow(ApiDoc) /\ MatchesDeny(ApiDoc)
    /\ MatchesAllow(PdfDoc) /\ MatchesDeny(PdfDoc)
    /\ Doc(1) \in processed_urls
    /\ fetched[ApiDoc] = 0 /\ fetched[PdfDoc] = 0

\* C5: when a retry of a documentation page (within the depth limit and the
\* size ceiling) receives a 2xx response after a retryable failure, exactly one
\* record set stands
\* emitted for the URL, the URL is not among the failed ones, and neither the
\* retry nor the success changed the set of failed URLs.
C5_RetryThenSuccessOneItem ==
    [][/\ (last'.delivered /\ last'.retry_times > 0 /\ inflight' # inflight
           /\ last'.url # start_url /\ last'.depth <= max_depth
           /\ last'.size <= MAX_PAGE_SIZE)
          => (emitted'[last'.url] = 1 /\ last'.url \notin failed' /\ failed' = failed)
       /\ (last'.rescheduled /\ inflight' # inflight) => failed' = failed
      ]_vars

\* /docs/p5 got 503, was retried and then got 200: one record set, no failure.
C5_Witness ==
    /\ last.delivered /\ last.retry_times = 1 /\ last.status = 200
    /\ last.url = Doc(5)
    /\ emitted[Doc(5)] = 1
    /\ failed = {}

\* C6: no request is retried more than RETRY_TIMES times; a retryable failure
\* of the last permitted retry is given up and recorded as failed; a failed
\* URL has no request left; and, unless the run is interrupted, the spider
\* closes only when the frontier has drained, so the tasks that remain after a
\* failure are still processed.
C6_RetriesBounded ==
    /\ \A r \in Pending : r.retry_times <= RETRY_TIMES
    /\ last.retry_times <= RETRY_TIMES
    /\ (last.retry_times = RETRY_TIMES /\ ~last.delivered /\ last # NoAttempt)
          => (last.giveup /\ last.url \in failed)
    /\ \A r \in Pending : ResponseUrl(r.url) \notin failed
    /\ (closed /\ interrupted = "") => Pending = {}

\* A request was given up after its third retry failed with 503, while other
\* tasks are still queued and the spider is open.
C6_Witness ==
    /\ last.giveup /\ last.retry_times = RETRY_TIMES /\ last.status = 503
    /\ ~last.dont_retry
    /\ queue # {} /\ ~closed

\* C7: an attempt reaches the callback exactly when its status is 2xx; it is
\* re-scheduled only when its status is one of 500, 502, 503, 504, 408, 429 or
\* its exception is a transient one; every other non-2xx status ends the task
\* as failed, with no retry.
C7_Classification ==
    last # NoAttempt =>
        /\ last.delivered <=> (last.exc = "" /\ last.status \in 200..299)
        /\ last.rescheduled =>
              \/ last.exc = "" /\ last.status \in {500, 502, 503, 504, 408, 429}
              \/ last.exc \in {"TimeoutError", "ConnectionRefusedError"}
        /\ (last.exc = "" /\ last.status \notin 200..299
              /\ last.status \notin {500, 502, 503, 504, 408, 429})
             => (last.giveup /\ ~last.rescheduled /\ last.url \in failed)
        /\ ((\/ last.exc = "" /\ last.status \in {500, 502, 503, 504, 408, 429}
             \/ last.exc \in {"TimeoutError", "ConnectionRefusedError"})
              /\ ~last.dont_retry /\ last.retry_times < RETRY_TIMES)
             => last.rescheduled

\* The second retry of /docs/p2 got 429 and was re-scheduled.
C7_Witness ==
    /\ last.rescheduled /\ last.status = 429 /\ last.url = Doc(2)
    /\ last.retry_times = 2
    /\ \E r \in queue : ResponseUrl(r.url) = Doc(2) /\ r.retry_times = 3

\* C8: a request that carries dont_retry is never retried: no request with the
\* flag has a retry count above 0, and an attempt of such a request is never
\* re-scheduled, whatever it ended with.
C8_DontRetryNeverRetried ==
    /\ \A r \in Pending : r.dont_retry => r.retry_times = 0
    /\ last.dont_retry => (~last.rescheduled /\ last.retry_times = 0)

\* A flagged request got 503 on its first attempt and was given up at once.
C8_Witness ==
    /\ last.dont_retry /\ last.status = 503 /\ last.giveup
    /\ last.retry_times = 0
    /\ \A r \in Pending : ResponseUrl(r.url) # last.url

\* C9: every stored DocumentationItem has content of at least 50 characters
\* and a non-empty title.
C9_StoredItemsValid ==
    \A i \in 1..Len(items) :
        /\ TextLen(items[i].content) >= 50
        /\ items[i].title # <<>>

\* C10: every stored code example has code of at least 10 characters, and
\* every stored link a non-empty url and a non-empty text.
C10_StoredCodeAndLinksValid ==
    /\ \A i \in 1..Len(code_examples) : TextLen(code_examples[i].code) >= 10
    /\ \A i \in 1..Len(links) : links[i].url # <<>> /\ links[i].text # <<>>

\* C11: when process_item rejects a record (its cleaning returns None), the
\* three collections are exactly as they were; the pipeline raises nothing
\* and goes on: a record that is accepted afterwards is accumulated.
C11_RejectionLeavesCollections ==
    [][/\ rejected' # rejected => UNCHANGED <<items, code_examples, links>>
       /\ (last_item' # last_item \/ Stored' # Stored \/ rejected' # rejected)
            => (last_item'.rejected <=> rejected' = rejected + 1)
       /\ (rejected' = rejected /\ last_item'.cls # "" /\ ~last_item'.rejected
             /\ <<items, code_examples, links>>' # <<items, code_examples, links>>)
            => Stored' = Stored + 1
      ]_vars

\* A record was rejected, and the DocumentationItem handed over after it is
\* the one stored record.
C11_Witness ==
    /\ rejected = 1
    /\ last_item = [cls |-> "DocumentationItem", rejected |-> FALSE]
    /\ Len(items) = 1 /\ Stored = 1

\* The number of times the record x stands in the sequence q.
Occurrences(q, x) == Cardinality({i \in DOMAIN q : q[i] = x})
RECURSIVE SumSizes(_, _)
SumSizes(groups, keys) ==
    IF keys = {} THEN 0
    ELSE LET k == CHOOSE k \in keys : TRUE
         IN Len(groups[k]) + SumSizes(groups, keys \ {k})
GroupSizes(groups) == SumSizes(groups, DOMAIN groups)
InGroups(groups, x) == {k \in DOMAIN groups : Occurrences(groups[k], x) > 0}

\* C12: after process_documentation the statistics give the number of loaded
\* items, the sum of the lengths of their contents, and as average the
\* quotient of the two, or 0 when there is no item.
C12_Statistics ==
    now >= 1 =>
        LET stats == processed_data.statistics
            n == Len(documentation_items)
        IN /\ stats.total_documentation_items = n
           /\ stats.total_content_length =
                 SumSizes([i \in DOMAIN documentation_items |->
                              [j \in 1..TextLen(Get(documentation_items[i], "content", <<>>))
                                  |-> j]],
                          DOMAIN documentation_items)
           /\ n = 0 => stats.average_content_length = Zero
           /\ n > 0 => /\ stats.average_content_length.den > 0
                       /\ stats.average_content_length.num * n
                            = stats.total_content_length * stats.average_content_length.den

\* Two items of 59 and 51 characters: total 110, average 110/2.
C12_Witness ==
    /\ now >= 1 /\ Len(documentation_items) = 2
    /\ processed_data.statistics.total_content_length = 110
    /\ processed_data.statistics.average_content_length = [num |-> 110, den |-> 2]

\* processed_data without the timestamp of its statistics.
Undated(data) == [data EXCEPT !.statistics.processing_date = 0]

OnceIn(groups, key, x) ==
    /\ InGroups(groups, x) = {key}
    /\ Occurrences(groups[key], x) = 1

\* C19: after process_documentation every loaded item stands once in the
\* group of its section, of its language and of its page type and in no other
\* group of the three groupings, and once under each of its tags and under
\* no other topic; the sizes of the groups of each of the three groupings add
\* up to the number of items; every code example stands once in the group of
\* its language and in no other.
C19_Partition ==
    now >= 1 =>
        /\ \A i \in DOMAIN documentation_items :
              LET x == documentation_items[i] IN
              /\ OnceIn(processed_data.sections,
                        Get(x, "section", "General Documentation"), x)
              /\ OnceIn(processed_data.languages, Get(x, "language", "en"), x)
              /\ OnceIn(processed_data.page_types, Get(x, "page_type", "general"), x)
              /\ InGroups(processed_data.topics, x) = Range(Get(x, "tags", <<>>))
              /\ \A t \in DOMAIN processed_data.topics :
                    Occurrences(processed_data.topics[t], x) <= 1
        /\ GroupSizes(processed_data.sections) = Len(documentation_items)
        /\ GroupSizes(processed_data.languages) = Len(documentation_items)
        /\ GroupSizes(processed_data.page_types) = Len(documentation_items)
        /\ \A i \in DOMAIN dp_code_examples :
              OnceIn(processed_data.code_by_language,
                     Get(dp_code_examples[i], "language", "text"), dp_code_examples[i])
        /\ GroupSizes(processed_data.code_by_language) = Len(dp_code_examples)

\* Two items of one section, one tagged sdk and wallet and one tagged sdk,
\* and two code examples of the language text (one by default).
C19_Witness ==
    /\ now >= 1
    /\ Len(documentation_items) = 2
    /\ DOMAIN processed_data.sections = {"Mini Dapp Development"}
    /\ DOMAIN processed_data.topics = {"sdk", "wallet"}
    /\ Len(processed_data.topics["sdk"]) = 2
    /\ Len(processed_data.topics["wallet"]) = 1
    /\ DOMAIN processed_data.code_by_language = {"text"}
    /\ Len(processed_data.code_by_language["text"]) = 2

C15_InterruptThenAggregation ==
    interrupted = "run_crawler" =>
        /\ pc \in {"run_data_processor", "generate_summary", "return"}
        /\ closed

\* C15 as amended: after an interrupt during the crawl no request is admitted,
\* sent or answered any more, and the run ends in sys.exit(1) without the
\* data processor: main never reaches run_data_processor.
C15_InterruptExits ==
    [][interrupted' = "run_crawler"
          => /\ pc' = "sys.exit(1)"
             /\ <<queue, seen, inflight, processed_urls, emitted, fetched>>'
                  = <<queue, seen, inflight, processed_urls, emitted, fetched>>
      ]_vars

\* The interrupt arrived while /docs/p1 had been parsed and requests were
\* still queued and in flight: the run is over, nothing was written.
C15_Witness ==
    /\ interrupted = "run_crawler" /\ pc = "sys.exit(1)"
    /\ emitted[Doc(1)] = 1
    /\ queue # {} /\ inflight # {}
    /\ ~closed

\* C16: a 2xx response of more than 7 MB handed to parse_documentation yields
\* no record set and its URL is recorded as skipped (the warning names it).
C16_OversizeSkipped ==
    (last.delivered /\ last.callback = "parse_documentation"
       /\ last.size > MAX_PAGE_SIZE)
      => /\ emitted[last.url] = 0
         /\ last.url \in skipped

\* C17: at every moment at most CONCURRENT_REQUESTS_PER_DOMAIN requests are in
\* flight to one domain, and a request is sent only while fewer than that are
\* in flight to its domain.
C17_PerDomainLimit ==
    [][/\ \A r \in inflight' :
             Cardinality({q \in inflight' : q.url.host = r.url.host})
                <= CONCURRENT_REQUESTS_PER_DOMAIN
       /\ \A r \in inflight' \ inflight :
             Cardinality({q \in inflight : q.url.host = r.url.host})
                < CONCURRENT_REQUESTS_PER_DOMAIN
      ]_vars

\* /docs/p1 is in flight while /docs/p1/ waits in the scheduler for the same
\* domain.
C17_Witness ==
    /\ \E r \in inflight : ResponseUrl(r.url) = Doc(1)
    /\ \E q \in queue : q.url = DocSlash(1) /\ q.url.host = Doc(1).host
    /\ Cardinality(inflight) = CONCURRENT_REQUESTS_PER_DOMAIN

\* C18: however the engine interleaves the generators of responses with one
\* URL, the membership test and the insertion into processed_urls are one
\* step (no generator rests between them): of the generators that ran their
\* test exactly one was admitted, the others returned without a yield, and at
\* most one record set is emitted for the URL.
C18_AtomicAdmission ==
    /\ \A i \in DOMAIN calls : calls[i].at \notin {"add", "depth", "size", "item"}
    /\ \A u \in Pages :
          LET tested == {i \in DOMAIN calls : calls[i].url = u /\ calls[i].at # "test"}
              admitted == {i \in tested : calls[i].admitted}
          IN /\ tested # {} => Cardinality(admitted) = 1
             /\ \A i \in tested \ admitted : calls[i].yielded = 0 /\ calls[i].at = "done"
             /\ u \in processed_urls <=> tested # {}
             /\ emitted[u] <= 1

\* Two responses for /docs/p1 were handed to the callback; the second
\* generator ran first, was admitted and yielded, the first returned at once.
C18_Witness ==
    /\ Len(calls) = 2
    /\ calls[1].url = Doc(1) /\ calls[2].url = Doc(1)
    /\ ~calls[1].admitted /\ calls[1].at = "done" /\ calls[1].yielded = 0
    /\ calls[2].admitted /\ calls[2].at = "rest" /\ calls[2].yielded = 1
    /\ emitted[Doc(1)] = 1

\* A code element inside a pre element whose class is language-X or lang-X.
Fenced(e) == e.pre /\ e.class # <<>>
\* A code element outside a pre element, without a class.
BareInline(e) == ~e.pre /\ e.class = <<>>
EntriesOf(type) == {code_blocks[i] : i \in {j \in DOMAIN code_blocks : code_blocks[j].type = type}}
ClassName(e) == <<e.class[2]>>

C21_DocumentOrder ==
    ~response.none => headings = EntriesInOrder(response.heading_elements)

\* C22 as stated: a mini_dapp or dapp_portal page is complete only with a tag
\* of its required set, and a page of any other type is complete whenever its
\* content and its title are not empty.
C22_CompleteWhenNonEmpty ==
    ~response.item.none =>
        LET item == response.item.fields IN
        /\ (item.page_type \in {"mini_dapp", "dapp_portal"} /\ is_complete)
              => item.tags \cap RequiredTags(item.page_type) # {}
        /\ (item.page_type \notin {"mini_dapp", "dapp_portal"}
              /\ item.content # <<>> /\ item.title # <<>>)
              => is_complete

\* C22 as amended: a page is complete exactly when its content has at least
\* 100 characters, its title is not empty and, for a mini_dapp or dapp_portal
\* page, it carries a tag of the required set of its type.
C22_CompletePolicy ==
    ~response.item.none =>
        LET item == response.item.fields IN
        is_complete <=>
            /\ TextLen(item.content) >= 100
            /\ item.title # <<>>
            /\ item.page_type = "mini_dapp"
                  => item.tags \cap {"sdk", "integration", "development"} # {}
            /\ item.page_type = "dapp_portal"
                  => item.tags \cap {"wallet", "payment", "portal"} # {}

\* A mini_dapp page of 100 characters with the tags sdk and tutorial is
\* complete.
C22_Witness ==
    /\ ~response.item.none
    /\ response.item.fields.page_type = "mini_dapp"
    /\ response.item.fields.tags = {"sdk", "tutorial"}
    /\ TextLen(response.item.fields.content) = 100
    /\ is_complete

\* C24: each code element of the page gives at most one entry of code_blocks:
\* no text stands in more entries than there are code elements with it.
C24_OneEntryPerElement ==
    ~response.none =>
        \A b \in Range(code_blocks) :
            Cardinality({i \in DOMAIN code_blocks : code_blocks[i].code = b.code})
              <= Cardinality({i \in DOMAIN response.elements :
                                 Strip(response.elements[i].text) = b.code})

\* C23: for every persisted DocumentationItem, content_length is the length
\* of the content as persisted and has_code tells whether code_blocks is not
\* empty.
C23_DerivedFieldsAgree ==
    \A i \in DOMAIN items :
        /\ items[i].content_length = TextLen(items[i].content)
        /\ items[i].has_code <=> items[i].code_blocks # <<>>

\* C25: every DocumentationItem MarkdownPipeline.documentation_items holds is
\* one of DocumentationPipeline.items.
C25_MarkdownHoldsAcceptedOnly ==
    \A k \in DOMAIN md_documentation_items :
        \E i \in DOMAIN items : items[i].id = md_documentation_items[k]

\* C26: over the finite set of pages and under fair scheduling, every crawl
\* terminates, whatever its responses were: from some point on the scheduler
\* is empty, nothing is in flight and the spider is closed.
C26_Terminates == <>[](closed /\ queue = {} /\ inflight = {})

\* The spider was closed after a crawl in which a page failed for good, a
\* page was skipped as too large and a request had been retried to the cap.
C26_Witness ==
    /\ closed /\ queue = {} /\ inflight = {}
    /\ failed # {} /\ skipped # {}
    /\ last.retry_times = RETRY_TIMES

====
